---- MODULE Spec2Model ----
(***************************************************************************)
(* Model of src/easy_apply_agent.py: the session ledger kept in            *)
(* LinkedInBotController.session_data, the live snapshot file              *)
(* applications_log.json, the user-intervention timer, the stateless       *)
(* per-application time limit check, and LinkedInEasyApplyBot.run with     *)
(* its final report.                                                       *)
(*                                                                         *)
(* Time is counted in whole seconds since the controller was constructed.  *)
(* A Python str that the code only stores or compares is a TLA+ string; a  *)
(* str that the code splits on "," is a sequence of atoms, each atom       *)
(* either the comma "," or a comma-free piece of text.                     *)
(***************************************************************************)
EXTENDS Integers, Sequences, FiniteSets, TLC

VARIABLES
    clock,                    \* datetime.now(), seconds
    session_data,             \* self.session_data
    user_intervention_start,  \* self.user_intervention_start
    prev_intervention_start,  \* self.user_intervention_start as the last step found it
    prev_snapshot_diverged,   \* whether the log_application_attempt of the last step
                              \* found a record in memory that the snapshot lacked
    json_file,                \* data/applications_log.json on disk
    report_file,              \* data/final_report.json on disk
    pc,                       \* position of LinkedInEasyApplyBot.run
    finalize_calls,           \* number of calls of _save_final_report
    lastAction,               \* the operation that took the last step
    lastArgs,                 \* its arguments
    result                    \* the ActionResult it returned, NoResult when
                              \* the last step was not a call of an action

vars == <<clock, session_data, user_intervention_start, prev_intervention_start,
          prev_snapshot_diverged, json_file, report_file, pc, finalize_calls, lastAction,
          lastArgs, result>>

(***************************************************************************)
(* Bounds of the model.                                                    *)
(***************************************************************************)
MaxApplications == 2

\* the instants at which the clock is read in Spec: the construction of the
\* controller and one instant past the two-minute limit
Instants == {0, 121}

\* the instants at which the clock is read in SpecTimers; the differences
\* between them cover 119, 120, 121, 299, 300 and 301 seconds
TimerInstants == {0, 1, 2, 121, 301, 302}

(***************************************************************************)
(* Program constants.                                                      *)
(***************************************************************************)
InterventionLimit == 120      \* timedelta(minutes=2), and the literal 120
ApplicationLimit == 300       \* timedelta(minutes=5), and the literal 300

\* self.user_intervention_start = None
None == -1

\* the values the comment on ApplicationStatus.status lists
StatusValues == {"success", "failed", "skipped"}

(***************************************************************************)
(* ActionResult(extracted_content=..., error=...).  n carries the number   *)
(* that the f-string formats into the content, 0 when there is none;       *)
(* summary carries the dict that get_session_stats dumps into the content. *)
(***************************************************************************)
\* the summary of get_session_stats, empty for the other actions
NoSummary == <<>>

ActionResult(content, n) ==
    [extracted_content |-> content, n |-> n, summary |-> NoSummary, error |-> ""]

ActionError(msg) == [extracted_content |-> "", n |-> 0, summary |-> NoSummary, error |-> msg]

\* when the last step was not a call of an action
NoResult == ActionResult("", 0)

(***************************************************************************)
(* str.split(","): the pieces between the commas, empty pieces kept.       *)
(***************************************************************************)
RECURSIVE Split(_)
Split(s) ==
    IF \A i \in 1..Len(s) : s[i] # ","
    THEN <<s>>
    ELSE LET i == CHOOSE j \in 1..Len(s) :
                      s[j] = "," /\ \A k \in 1..(j - 1) : s[k] # ","
         IN  <<SubSeq(s, 1, i - 1)>> \o Split(SubSeq(s, i + 1, Len(s)))

\* form_fields.split(",") if form_fields else []
SplitOrEmpty(s) == IF s = <<>> THEN <<>> ELSE Split(s)

(***************************************************************************)
(* ApplicationStatus(...) followed by asdict(...).                         *)
(***************************************************************************)
ApplicationStatus(a, now) ==
    [job_title          |-> a.job_title,
     company            |-> a.company,
     job_url            |-> a.job_url,
     application_time   |-> now,
     status             |-> a.status,
     reason             |-> a.reason,
     easy_apply         |-> a.easy_apply,
     form_fields_filled |-> SplitOrEmpty(a.form_fields),
     errors             |-> SplitOrEmpty(a.errors)]

\* UpdateStats with the easy_apply test made the first branch of the status
\* chain
UpdateStats_EasyApplyInChain(stats, status, easy_apply) ==
    [total_jobs_checked     |-> stats.total_jobs_checked + 1,
     easy_apply_found       |-> stats.easy_apply_found + (IF easy_apply THEN 1 ELSE 0),
     applications_submitted |-> stats.applications_submitted +
                                   (IF ~easy_apply /\ status = "success" THEN 1 ELSE 0),
     applications_failed    |-> stats.applications_failed +
                                   (IF ~easy_apply /\ status = "failed" THEN 1 ELSE 0),
     jobs_skipped           |-> stats.jobs_skipped +
                                   (IF ~easy_apply /\ status = "skipped" THEN 1 ELSE 0)]

(***************************************************************************)
(* The "Update stats" block of log_application_attempt.                    *)
(***************************************************************************)
UpdateStats(stats, status, easy_apply) ==
    [total_jobs_checked     |-> stats.total_jobs_checked + 1,
     easy_apply_found       |-> stats.easy_apply_found + (IF easy_apply THEN 1 ELSE 0),
     applications_submitted |-> stats.applications_submitted + (IF status = "success" THEN 1 ELSE 0),
     applications_failed    |-> stats.applications_failed + (IF status = "failed" THEN 1 ELSE 0),
     jobs_skipped           |-> stats.jobs_skipped + (IF status = "skipped" THEN 1 ELSE 0)]

ZeroStats ==
    [total_jobs_checked |-> 0, easy_apply_found |-> 0, applications_submitted |-> 0,
     applications_failed |-> 0, jobs_skipped |-> 0]

(***************************************************************************)
(* json.dump(self.session_data, f, indent=2, ensure_ascii=False): the      *)
(* document as the sequence of JSON tokens written to the file, in the     *)
(* insertion order of the dicts and the field order of the dataclass.      *)
(* Whitespace is left out.  A token has a kind k, a text s and a number n. *)
(***************************************************************************)
Tok(k, s, n) == [k |-> k, s |-> s, n |-> n]

Punct(c) == Tok("punct", <<c>>, 0)

Key(name) == Tok("key", <<name>>, 0)

Str(x) == Tok("str", <<x>>, 0)

\* a str held as a sequence of atoms
AtomStr(x) == Tok("str", x, 0)

Num(i) == Tok("num", <<>>, i)

Bool(b) == Tok("bool", <<>>, IF b THEN 1 ELSE 0)

\* a datetime.isoformat() string
IsoFormat(t) == Tok("iso", <<>>, t)

RECURSIVE DumpStrList(_)
DumpStrList(l) ==
    IF l = <<>> THEN <<>> ELSE <<AtomStr(Head(l))>> \o DumpStrList(Tail(l))

DumpApplication(r) ==
    <<Punct("{"),
      Key("job_title"), Str(r.job_title),
      Key("company"), Str(r.company),
      Key("job_url"), Str(r.job_url),
      Key("application_time"), IsoFormat(r.application_time),
      Key("status"), Str(r.status),
      Key("reason"), Str(r.reason),
      Key("easy_apply"), Bool(r.easy_apply),
      Key("form_fields_filled"), Punct("[")>> \o DumpStrList(r.form_fields_filled) \o
    <<Punct("]"), Key("errors"), Punct("[")>> \o DumpStrList(r.errors) \o
    <<Punct("]"), Punct("}")>>

RECURSIVE DumpApplications(_)
DumpApplications(l) ==
    IF l = <<>> THEN <<>> ELSE DumpApplication(Head(l)) \o DumpApplications(Tail(l))

DumpStats(st) ==
    <<Punct("{"),
      Key("total_jobs_checked"), Num(st.total_jobs_checked),
      Key("easy_apply_found"), Num(st.easy_apply_found),
      Key("applications_submitted"), Num(st.applications_submitted),
      Key("applications_failed"), Num(st.applications_failed),
      Key("jobs_skipped"), Num(st.jobs_skipped),
      Punct("}")>>

\* JsonDump of the record logged last alone, a delta in place of the whole
\* session
JsonDump_LastOnly(sd) ==
    <<Punct("{"), Key("start_time"), IsoFormat(sd.start_time),
      Key("applications"), Punct("[")>> \o
    (IF sd.applications = <<>> THEN <<>>
     ELSE DumpApplication(sd.applications[Len(sd.applications)])) \o
    <<Punct("]"), Key("stats")>> \o DumpStats(sd.stats) \o <<Punct("}")>>

JsonDump(sd) ==
    <<Punct("{"), Key("start_time"), IsoFormat(sd.start_time),
      Key("applications"), Punct("[")>> \o DumpApplications(sd.applications) \o
    <<Punct("]"), Key("stats")>> \o DumpStats(sd.stats) \o <<Punct("}")>>

(***************************************************************************)
(* json.load of a snapshot: the reader of the round-trip property.  Each   *)
(* parser returns whether the tokens from position i on are well formed,   *)
(* the position after what it read, and the value read.                    *)
(***************************************************************************)
ParseFail == [ok |-> FALSE, next |-> 0, val |-> <<>>]

Parsed(next, val) == [ok |-> TRUE, next |-> next, val |-> val]

At(toks, i, tok) == i <= Len(toks) /\ toks[i] = tok

KindAt(toks, i, k) == i <= Len(toks) /\ toks[i].k = k

RECURSIVE ParseStrList(_, _, _)
ParseStrList(toks, i, acc) ==
    IF At(toks, i, Punct("]")) THEN Parsed(i + 1, acc)
    ELSE IF KindAt(toks, i, "str") THEN ParseStrList(toks, i + 1, Append(acc, toks[i].s))
    ELSE ParseFail

ParseApplication(toks, i) ==
    IF /\ At(toks, i, Punct("{"))
       /\ At(toks, i + 1, Key("job_title")) /\ KindAt(toks, i + 2, "str")
       /\ At(toks, i + 3, Key("company")) /\ KindAt(toks, i + 4, "str")
       /\ At(toks, i + 5, Key("job_url")) /\ KindAt(toks, i + 6, "str")
       /\ At(toks, i + 7, Key("application_time")) /\ KindAt(toks, i + 8, "iso")
       /\ At(toks, i + 9, Key("status")) /\ KindAt(toks, i + 10, "str")
       /\ At(toks, i + 11, Key("reason")) /\ KindAt(toks, i + 12, "str")
       /\ At(toks, i + 13, Key("easy_apply")) /\ KindAt(toks, i + 14, "bool")
       /\ At(toks, i + 15, Key("form_fields_filled")) /\ At(toks, i + 16, Punct("["))
    THEN LET ff == ParseStrList(toks, i + 17, <<>>) IN
         IF ff.ok /\ At(toks, ff.next, Key("errors")) /\ At(toks, ff.next + 1, Punct("["))
         THEN LET er == ParseStrList(toks, ff.next + 2, <<>>) IN
              IF er.ok /\ At(toks, er.next, Punct("}"))
              THEN Parsed(er.next + 1,
                          [job_title          |-> toks[i + 2].s[1],
                           company            |-> toks[i + 4].s[1],
                           job_url            |-> toks[i + 6].s[1],
                           application_time   |-> toks[i + 8].n,
                           status             |-> toks[i + 10].s[1],
                           reason             |-> toks[i + 12].s[1],
                           easy_apply         |-> (toks[i + 14].n = 1),
                           form_fields_filled |-> ff.val,
                           errors             |-> er.val])
              ELSE ParseFail
         ELSE ParseFail
    ELSE ParseFail

RECURSIVE ParseApplications(_, _, _)
ParseApplications(toks, i, acc) ==
    IF At(toks, i, Punct("]")) THEN Parsed(i + 1, acc)
    ELSE LET r == ParseApplication(toks, i) IN
         IF r.ok THEN ParseApplications(toks, r.next, Append(acc, r.val)) ELSE ParseFail

ParseStats(toks, i) ==
    IF /\ At(toks, i, Punct("{"))
       /\ At(toks, i + 1, Key("total_jobs_checked")) /\ KindAt(toks, i + 2, "num")
       /\ At(toks, i + 3, Key("easy_apply_found")) /\ KindAt(toks, i + 4, "num")
       /\ At(toks, i + 5, Key("applications_submitted")) /\ KindAt(toks, i + 6, "num")
       /\ At(toks, i + 7, Key("applications_failed")) /\ KindAt(toks, i + 8, "num")
       /\ At(toks, i + 9, Key("jobs_skipped")) /\ KindAt(toks, i + 10, "num")
       /\ At(toks, i + 11, Punct("}"))
    THEN Parsed(i + 12,
                [total_jobs_checked     |-> toks[i + 2].n,
                 easy_apply_found       |-> toks[i + 4].n,
                 applications_submitted |-> toks[i + 6].n,
                 applications_failed    |-> toks[i + 8].n,
                 jobs_skipped           |-> toks[i + 10].n])
    ELSE ParseFail

JsonLoad(toks) ==
    IF /\ At(toks, 1, Punct("{"))
       /\ At(toks, 2, Key("start_time")) /\ KindAt(toks, 3, "iso")
       /\ At(toks, 4, Key("applications")) /\ At(toks, 5, Punct("["))
    THEN LET ap == ParseApplications(toks, 6, <<>>) IN
         IF ap.ok /\ At(toks, ap.next, Key("stats"))
         THEN LET st == ParseStats(toks, ap.next + 1) IN
              IF st.ok /\ At(toks, st.next, Punct("}")) /\ st.next = Len(toks)
              THEN Parsed(st.next + 1,
                          [start_time   |-> toks[3].n,
                           applications |-> ap.val,
                           stats        |-> st.val])
              ELSE ParseFail
         ELSE ParseFail
    ELSE ParseFail

(***************************************************************************)
(* What the environment does with a write to a file: the write completes,  *)
(* open() raises and the file stays as it was, or the file is opened with  *)
(* mode 'w' (which truncates it) and the write stops part-way.             *)
(***************************************************************************)
WriteOutcomes == {"ok", "open_fails", "dump_fails"}

NoFile == [exists |-> FALSE, content |-> <<>>]

\* the file after open(.., 'w') and a write that stopped: nothing, or the
\* first half of the document
PartialWrites(doc) == {SubSeq(doc, 1, k) : k \in {0, Len(doc) \div 2}}

\* FilesAfterWrite with the file opened in mode 'a'
FilesAfterWrite_Append(file, doc, outcome) ==
    CASE outcome = "ok"         -> {[exists |-> TRUE, content |-> file.content \o doc]}
      [] outcome = "open_fails" -> {file}
      [] outcome = "dump_fails" ->
            {[exists |-> TRUE, content |-> file.content \o c] : c \in PartialWrites(doc)}

\* with open(json_file, 'w') as f: json.dump(sd, f)
FilesAfterWrite(file, doc, outcome) ==
    CASE outcome = "ok"         -> {[exists |-> TRUE, content |-> doc]}
      [] outcome = "open_fails" -> {file}
      [] outcome = "dump_fails" -> {[exists |-> TRUE, content |-> c] : c \in PartialWrites(doc)}

(***************************************************************************)
(* The arguments the agent passes to the actions.                          *)
(***************************************************************************)
\* a start_time_iso that datetime.fromisoformat rejects
Malformed == -2

\* the start times of an application that the agent passes in
ApplicationStarts == {0, 1, 2}

NoArgs ==
    [job_title |-> "", company |-> "", job_url |-> "", status |-> "", reason |-> "",
     easy_apply |-> FALSE, form_fields |-> <<>>, errors |-> <<>>, start_time_iso |-> 0]

FormFieldsOf(status) ==
    CASE status = "success" -> <<"name", ",", "email">>
      [] status = "failed"  -> <<"name", ",">>
      [] OTHER              -> <<>>

ErrorsOf(status) == IF status = "failed" THEN <<"timeout">> ELSE <<>>

ReasonOf(status) == IF status = "skipped" THEN "not_easy_apply" ELSE ""

\* "pending" stands for every status outside StatusValues
LogArgs ==
    {[NoArgs EXCEPT !.job_title = "Engineer", !.company = "Acme", !.job_url = "url",
                    !.status = s, !.reason = ReasonOf(s), !.easy_apply = e,
                    !.form_fields = FormFieldsOf(s), !.errors = ErrorsOf(s)] :
        s \in StatusValues \cup {"pending"}, e \in BOOLEAN}

(***************************************************************************)
(* LinkedInBotController.__init__ and the entry of run().                  *)
(***************************************************************************)
NoReport == [state |-> "absent", session_summary |-> <<>>, end_time |-> 0, total_runtime |-> 0]

Init ==
    /\ clock = 0
    /\ session_data = [start_time |-> 0, applications |-> <<>>, stats |-> ZeroStats]
    /\ user_intervention_start = None
    /\ prev_intervention_start = None
    /\ prev_snapshot_diverged = FALSE
    /\ json_file = NoFile
    /\ report_file = NoReport
    /\ pc = "running"
    /\ finalize_calls = 0
    /\ lastAction = "init"
    /\ lastArgs = NoArgs
    /\ result = NoResult

\* time passes between two actions of the agent
TickTo(instants) ==
    /\ pc \in {"running", "finally_ok", "finally_exc"}
    /\ \E t \in instants : t > clock /\ clock' = t
    /\ lastAction' = "tick"
    /\ prev_intervention_start' = user_intervention_start
    /\ prev_snapshot_diverged' = FALSE
    /\ lastArgs' = NoArgs
    /\ result' = NoResult
    /\ UNCHANGED <<session_data, user_intervention_start, json_file, report_file,
                   pc, finalize_calls>>

Tick == TickTo(Instants)

TickTimers == TickTo(TimerInstants)

(***************************************************************************)
(* The user-intervention timer.                                            *)
(***************************************************************************)
\* start_user_intervention_timer that leaves a running timer alone
start_user_intervention_timer_KeepFirst ==
    /\ pc = "running"
    /\ user_intervention_start' =
          (IF user_intervention_start = None THEN clock ELSE user_intervention_start)
    /\ lastAction' = "start_user_intervention_timer"
    /\ prev_intervention_start' = user_intervention_start
    /\ prev_snapshot_diverged' = FALSE
    /\ lastArgs' = NoArgs
    /\ result' = ActionResult("Timer started - 2 minutes for user intervention", 0)
    /\ UNCHANGED <<clock, session_data, json_file, report_file, pc, finalize_calls>>

start_user_intervention_timer ==
    /\ pc = "running"
    /\ user_intervention_start' = clock
    /\ lastAction' = "start_user_intervention_timer"
    /\ prev_intervention_start' = user_intervention_start
    /\ prev_snapshot_diverged' = FALSE
    /\ lastArgs' = NoArgs
    /\ result' = ActionResult("Timer started - 2 minutes for user intervention", 0)
    /\ UNCHANGED <<clock, session_data, json_file, report_file, pc, finalize_calls>>

\* InterventionCheck with >= for >
InterventionCheck_AtLeast(start, now) ==
    IF start = None
    THEN ActionResult("No intervention timer active", 0)
    ELSE IF now - start >= InterventionLimit
         THEN ActionResult("TIMEOUT_EXCEEDED", 0)
         ELSE ActionResult("Timer active - seconds remaining", InterventionLimit - (now - start))

\* the ActionResult of check_user_intervention_timeout
InterventionCheck(start, now) ==
    IF start = None
    THEN ActionResult("No intervention timer active", 0)
    ELSE IF now - start > InterventionLimit
         THEN ActionResult("TIMEOUT_EXCEEDED", 0)
         ELSE ActionResult("Timer active - seconds remaining", InterventionLimit - (now - start))

\* check_user_intervention_timeout that clears the timer when it reports the
\* timeout
check_user_intervention_timeout_AutoReset ==
    /\ pc = "running"
    /\ lastAction' = "check_user_intervention_timeout"
    /\ prev_intervention_start' = user_intervention_start
    /\ prev_snapshot_diverged' = FALSE
    /\ lastArgs' = NoArgs
    /\ result' = InterventionCheck(user_intervention_start, clock)
    /\ user_intervention_start' =
          (IF result'.extracted_content = "TIMEOUT_EXCEEDED" THEN None ELSE user_intervention_start)
    /\ UNCHANGED <<clock, session_data, json_file, report_file, pc, finalize_calls>>

check_user_intervention_timeout ==
    /\ pc = "running"
    /\ lastAction' = "check_user_intervention_timeout"
    /\ prev_intervention_start' = user_intervention_start
    /\ prev_snapshot_diverged' = FALSE
    /\ lastArgs' = NoArgs
    /\ result' = InterventionCheck(user_intervention_start, clock)
    /\ UNCHANGED <<clock, session_data, user_intervention_start, json_file, report_file,
                   pc, finalize_calls>>

\* reset_user_intervention_timer that restarts the timer
reset_user_intervention_timer_Restart ==
    /\ pc = "running"
    /\ user_intervention_start' = clock
    /\ lastAction' = "reset_user_intervention_timer"
    /\ prev_intervention_start' = user_intervention_start
    /\ prev_snapshot_diverged' = FALSE
    /\ lastArgs' = NoArgs
    /\ result' = ActionResult("Timer reset - intervention completed", 0)
    /\ UNCHANGED <<clock, session_data, json_file, report_file, pc, finalize_calls>>

reset_user_intervention_timer ==
    /\ pc = "running"
    /\ user_intervention_start' = None
    /\ lastAction' = "reset_user_intervention_timer"
    /\ prev_intervention_start' = user_intervention_start
    /\ prev_snapshot_diverged' = FALSE
    /\ lastArgs' = NoArgs
    /\ result' = ActionResult("Timer reset - intervention completed", 0)
    /\ UNCHANGED <<clock, session_data, json_file, report_file, pc, finalize_calls>>

(***************************************************************************)
(* The per-application time limit: the agent keeps the start time and      *)
(* passes it in.                                                           *)
(***************************************************************************)
\* ApplicationCheck with the remaining time counted from the 120 of the
\* intervention timer
ApplicationCheck_InterventionLimit(start_time_iso, now) ==
    IF start_time_iso = Malformed
    THEN ActionError("Error checking time limit")
    ELSE IF now - start_time_iso > ApplicationLimit
         THEN ActionResult("TIME_LIMIT_EXCEEDED", 0)
         ELSE ActionResult("Time remaining: seconds", InterventionLimit - (now - start_time_iso))

ApplicationCheck(start_time_iso, now) ==
    IF start_time_iso = Malformed
    THEN ActionError("Error checking time limit")
    ELSE IF now - start_time_iso > ApplicationLimit
         THEN ActionResult("TIME_LIMIT_EXCEEDED", 0)
         ELSE ActionResult("Time remaining: seconds", ApplicationLimit - (now - start_time_iso))

check_application_time_limit ==
    /\ pc = "running"
    /\ \E s \in {t \in ApplicationStarts : t <= clock} \cup {Malformed} :
          /\ lastArgs' = [NoArgs EXCEPT !.start_time_iso = s]
          /\ result' = ApplicationCheck(s, clock)
    /\ lastAction' = "check_application_time_limit"
    /\ prev_intervention_start' = user_intervention_start
    /\ prev_snapshot_diverged' = FALSE
    /\ UNCHANGED <<clock, session_data, user_intervention_start, json_file, report_file,
                   pc, finalize_calls>>

\* the snapshot on disk parses to exactly the session data in memory
SnapshotUpToDate(file, sd) ==
    /\ file.exists
    /\ LET loaded == JsonLoad(file.content) IN loaded.ok /\ loaded.val = sd

\* the list in memory holds a record that the snapshot on disk does not show
Diverged(file, sd) == Len(sd.applications) > 0 /\ ~SnapshotUpToDate(file, sd)

(***************************************************************************)
(* The session ledger.                                                     *)
(***************************************************************************)
\* Logged with the record put in front of the list
Logged_Prepend(sd, a, now) ==
    [sd EXCEPT !.applications = <<ApplicationStatus(a, now)>> \o @,
               !.stats = UpdateStats(@, a.status, a.easy_apply)]

\* self.session_data after the append and the "Update stats" block
Logged(sd, a, now) ==
    [sd EXCEPT !.applications = Append(@, ApplicationStatus(a, now)),
               !.stats = UpdateStats(@, a.status, a.easy_apply)]

\* SessionAfterLog with an except clause that takes the record and its
\* counts back
SessionAfterLog_Rollback(sd, a, now, outcome) ==
    IF outcome = "ok" THEN Logged(sd, a, now) ELSE sd

\* self.session_data when log_application_attempt returns: the except clause
\* undoes nothing
SessionAfterLog(sd, a, now, outcome) == Logged(sd, a, now)

\* the ActionResult of log_application_attempt: the except clause turns a
\* failed write into an error result
LogResult(outcome) ==
    IF outcome = "ok"
    THEN ActionResult("Application logged", 0)
    ELSE ActionError("Failed to log application")

log_application_attempt ==
    /\ pc = "running"
    /\ Len(session_data.applications) < MaxApplications
    /\ prev_snapshot_diverged' = Diverged(json_file, session_data)
    /\ \E a \in LogArgs, outcome \in WriteOutcomes :
          /\ session_data' = SessionAfterLog(session_data, a, clock, outcome)
          /\ json_file' \in FilesAfterWrite(json_file, JsonDump(Logged(session_data, a, clock)), outcome)
          /\ lastArgs' = a
          /\ result' = LogResult(outcome)
    /\ lastAction' = "log_application_attempt"
    /\ prev_intervention_start' = user_intervention_start
    /\ UNCHANGED <<clock, user_intervention_start, report_file, pc, finalize_calls>>

\* the process is terminated from outside while log_application_attempt is
\* between the append and the end of the with block: before open(), or after
\* open() has truncated the file and before the document is written out
log_application_attempt_killed ==
    /\ pc = "running"
    /\ Len(session_data.applications) < MaxApplications
    /\ prev_snapshot_diverged' = Diverged(json_file, session_data)
    /\ \E a \in LogArgs, outcome \in {"open_fails", "dump_fails"} :
          /\ session_data' = Logged(session_data, a, clock)
          /\ json_file' \in FilesAfterWrite(json_file, JsonDump(session_data'), outcome)
          /\ lastArgs' = a
    /\ pc' = "killed"
    /\ lastAction' = "log_application_attempt_killed"
    /\ prev_intervention_start' = user_intervention_start
    /\ result' = NoResult
    /\ UNCHANGED <<clock, user_intervention_start, report_file, finalize_calls>>

Max(a, b) == IF a >= b THEN a ELSE b

\* f"{(num / max(total, 1) * 100):.1f}%", in tenths of a percent
Rate(num, total) ==
    LET d == Max(total, 1)
        q == (num * 1000) \div d
        r == (num * 1000) % d
    IN  IF 2 * r > d \/ (2 * r = d /\ q % 2 = 1) THEN q + 1 ELSE q

Summary(sd, now) ==
    [session_duration |-> now - sd.start_time,
     statistics       |-> sd.stats,
     success_rate     |-> Rate(sd.stats.applications_submitted, sd.stats.total_jobs_checked),
     easy_apply_rate  |-> Rate(sd.stats.easy_apply_found, sd.stats.total_jobs_checked)]

\* get_session_stats that also saves the snapshot
get_session_stats_Saves ==
    /\ pc = "running"
    /\ lastAction' = "get_session_stats"
    /\ prev_intervention_start' = user_intervention_start
    /\ prev_snapshot_diverged' = FALSE
    /\ lastArgs' = NoArgs
    /\ result' = [ActionResult("summary", 0) EXCEPT !.summary = Summary(session_data, clock)]
    /\ json_file' = [exists |-> TRUE, content |-> JsonDump(session_data)]
    /\ UNCHANGED <<clock, session_data, user_intervention_start, report_file,
                   pc, finalize_calls>>

get_session_stats ==
    /\ pc = "running"
    /\ lastAction' = "get_session_stats"
    /\ prev_intervention_start' = user_intervention_start
    /\ prev_snapshot_diverged' = FALSE
    /\ lastArgs' = NoArgs
    /\ result' = [ActionResult("summary", 0) EXCEPT !.summary = Summary(session_data, clock)]
    /\ UNCHANGED <<clock, session_data, user_intervention_start, json_file, report_file,
                   pc, finalize_calls>>

(***************************************************************************)
(* LinkedInEasyApplyBot.run: try: await agent.run()                        *)
(*                           except Exception: raise                       *)
(*                           finally: self._save_final_report()            *)
(***************************************************************************)
\* agent.run() returns
AgentReturns ==
    /\ pc = "running"
    /\ pc' = "finally_ok"
    /\ lastAction' = "AgentReturns"
    /\ prev_intervention_start' = user_intervention_start
    /\ prev_snapshot_diverged' = FALSE
    /\ lastArgs' = NoArgs
    /\ result' = NoResult
    /\ UNCHANGED <<clock, session_data, user_intervention_start, json_file, report_file,
                   finalize_calls>>

\* Agent(...) or agent.run() raises; the except clause logs and re-raises
AgentRaises ==
    /\ pc = "running"
    /\ pc' = "finally_exc"
    /\ lastAction' = "AgentRaises"
    /\ prev_intervention_start' = user_intervention_start
    /\ prev_snapshot_diverged' = FALSE
    /\ lastArgs' = NoArgs
    /\ result' = NoResult
    /\ UNCHANGED <<clock, session_data, user_intervention_start, json_file, report_file,
                   finalize_calls>>

\* the final_report dict
FinalReport(sd, now) ==
    [state           |-> "written",
     session_summary |-> JsonDump(sd),
     end_time        |-> now,
     total_runtime   |-> now - sd.start_time]

\* report_file after the with block of _save_final_report
ReportsAfterWrite(file, report, outcome) ==
    CASE outcome = "ok"         -> {report}
      [] outcome = "open_fails" -> {file}
      [] outcome = "dump_fails" ->
            {[report EXCEPT !.state = "partial", !.session_summary = c, !.end_time = 0,
                            !.total_runtime = 0] : c \in PartialWrites(report.session_summary)}

\* AfterFinally with a finally clause that returns, which drops the exception
AfterFinally_Swallow(at) == "returned"

\* where run() goes after the finally clause
AfterFinally(at) == IF at = "finally_exc" THEN "raised" ELSE "returned"

\* the finally clause: _save_final_report catches its own exceptions, then
\* run() returns or the exception of the agent propagates
_save_final_report ==
    /\ pc \in {"finally_ok", "finally_exc"}
    /\ finalize_calls' = finalize_calls + 1
    /\ \E outcome \in WriteOutcomes :
          report_file' \in ReportsAfterWrite(report_file, FinalReport(session_data, clock), outcome)
    /\ pc' = AfterFinally(pc)
    /\ lastAction' = "_save_final_report"
    /\ prev_intervention_start' = user_intervention_start
    /\ prev_snapshot_diverged' = FALSE
    /\ lastArgs' = NoArgs
    /\ result' = NoResult
    /\ UNCHANGED <<clock, session_data, user_intervention_start, json_file>>

Next ==
    \/ Tick
    \/ start_user_intervention_timer
    \/ check_user_intervention_timeout
    \/ reset_user_intervention_timer
    \/ check_application_time_limit
    \/ log_application_attempt
    \/ log_application_attempt_killed
    \/ get_session_stats
    \/ AgentReturns
    \/ AgentRaises
    \/ _save_final_report

Spec == Init /\ [][Next]_vars

(***************************************************************************)
(* The two timers alone, on a finer clock.                                 *)
(***************************************************************************)
NextTimers ==
    \/ TickTimers
    \/ start_user_intervention_timer
    \/ check_user_intervention_timeout
    \/ reset_user_intervention_timer
    \/ check_application_time_limit

SpecTimers == Init /\ [][NextTimers]_vars

(***************************************************************************)
(* The ledger and the start of the timer, with the result of the last call *)
(* kept while time passes, so that two calls of get_session_stats at       *)
(* different instants can be compared.                                     *)
(***************************************************************************)
\* time passes and the agent still holds the result of its last call
TickHolding ==
    /\ pc = "running"
    /\ \E t \in Instants : t > clock /\ clock' = t
    /\ UNCHANGED <<session_data, user_intervention_start, prev_intervention_start,
                   prev_snapshot_diverged, json_file, report_file, pc, finalize_calls,
                   lastAction, lastArgs, result>>

NextSummary ==
    \/ TickHolding
    \/ get_session_stats
    \/ log_application_attempt
    \/ start_user_intervention_timer

SpecSummary == Init /\ [][NextSummary]_vars

(***************************************************************************)
(* Properties of the session ledger.                                       *)
(***************************************************************************)
Stats == session_data.stats

Applications == session_data.applications

LogReturned == lastAction = "log_application_attempt"

\* C1: after N calls of log_application_attempt, with any status and any
\* easy_apply flag, total_jobs_checked is N and equals applications_submitted
\* + applications_failed + jobs_skipped, in every reachable state.
C1_TotalIsSumOfOutcomes ==
    /\ Stats.total_jobs_checked = Len(Applications)
    /\ Stats.total_jobs_checked =
          Stats.applications_submitted + Stats.applications_failed + Stats.jobs_skipped

\* C2: a call of log_application_attempt with a status among success, failed
\* and skipped and flag e adds 1 to total_jobs_checked, 1 to the one counter
\* of that status, 1 to easy_apply_found exactly when e is true, and nothing
\* to the other counters; from the empty session (success, true) gives
\* {1,1,1,0,0} and (skipped, false) gives {1,0,0,0,1}.
C2_OneCallCountsOnce ==
    [][(lastAction' = "log_application_attempt" /\ lastArgs'.status \in StatusValues) =>
          LET st == session_data.stats
              st2 == session_data'.stats
              s == lastArgs'.status
              e == lastArgs'.easy_apply
          IN  /\ st2.total_jobs_checked = st.total_jobs_checked + 1
              /\ st2.easy_apply_found = (IF e THEN st.easy_apply_found + 1 ELSE st.easy_apply_found)
              /\ st2.applications_submitted =
                    (IF s = "success" THEN st.applications_submitted + 1 ELSE st.applications_submitted)
              /\ st2.applications_failed =
                    (IF s = "failed" THEN st.applications_failed + 1 ELSE st.applications_failed)
              /\ st2.jobs_skipped =
                    (IF s = "skipped" THEN st.jobs_skipped + 1 ELSE st.jobs_skipped)
              /\ (st = ZeroStats /\ s = "success" /\ e) =>
                    st2 = [total_jobs_checked |-> 1, easy_apply_found |-> 1,
                           applications_submitted |-> 1, applications_failed |-> 0,
                           jobs_skipped |-> 0]
              /\ (st = ZeroStats /\ s = "skipped" /\ ~e) =>
                    st2 = [total_jobs_checked |-> 1, easy_apply_found |-> 0,
                           applications_submitted |-> 0, applications_failed |-> 0,
                           jobs_skipped |-> 1]]_vars

\* a second call has just counted a failed application with the flag set,
\* after a first call that counted a skipped job without it
C2_Witness ==
    /\ LogReturned
    /\ lastArgs.status = "failed" /\ lastArgs.easy_apply
    /\ Stats = [total_jobs_checked |-> 2, easy_apply_found |-> 1, applications_submitted |-> 0,
                applications_failed |-> 1, jobs_skipped |-> 1]

\* C3: wherever the run terminates, also inside log_application_attempt
\* between the open() of the snapshot and the end of the write, the snapshot
\* file, if it exists, is a complete document holding every record appended
\* in memory so far.
C3_SnapshotAlwaysComplete ==
    json_file.exists => SnapshotUpToDate(json_file, session_data)

\* C4: after every call of log_application_attempt that returns its
\* confirmation, the snapshot file parses to the session data in memory: the
\* same start_time, the same records in the same order, the same counters.
C4_SnapshotRoundTrip ==
    (LogReturned /\ result.error = "") =>
        /\ result.extracted_content = "Application logged"
        /\ SnapshotUpToDate(json_file, session_data)

\* the second record, with two form fields split out of "name,email", has
\* been written over the snapshot of the first
C4_Witness ==
    /\ LogReturned /\ result.error = ""
    /\ Len(Applications) = 2
    /\ Applications[2].form_fields_filled = << <<"name">>, <<"email">> >>
    /\ JsonLoad(json_file.content).val.applications = Applications

\* C5: when the snapshot write fails, log_application_attempt returns an
\* error result and does not raise, the new record stays appended and the
\* counters stay incremented, the snapshot on disk is not up to date, and
\* the run goes on, so that every action stays callable.
C5_FailedWriteKeepsRecord ==
    [][(lastAction' = "log_application_attempt" /\ result'.error # "") =>
          /\ result'.extracted_content = ""
          /\ session_data'.applications =
                Append(session_data.applications, ApplicationStatus(lastArgs', clock))
          /\ session_data'.stats.total_jobs_checked = session_data.stats.total_jobs_checked + 1
          /\ session_data'.stats # session_data.stats
          /\ ~SnapshotUpToDate(json_file', session_data')
          /\ pc' = "running"]_vars

\* a write has failed part-way: the record is in memory, the file is cut short
C5_Witness ==
    /\ LogReturned /\ result.error = "Failed to log application"
    /\ Len(Applications) = 2
    /\ json_file.exists /\ ~JsonLoad(json_file.content).ok

\* C6: _save_final_report is called exactly once per run, after the agent
\* loop has ended and never before, when the loop returns and when it
\* raises; when it raises, the exception propagates out of run() after the
\* call.
C6_FinalizeOnceAfterLoop ==
    [][/\ (pc' = "running") => finalize_calls' = 0
       /\ (pc' \in {"finally_ok", "finally_exc"}) => finalize_calls' = 0
       /\ (pc' \in {"returned", "raised"}) => finalize_calls' = 1
       /\ (pc = "finally_exc" /\ pc' # pc) => (pc' = "raised" /\ lastAction' = "_save_final_report")
       /\ (pc = "finally_ok" /\ pc' # pc) => (pc' = "returned" /\ lastAction' = "_save_final_report")
       /\ (pc' = "raised") => pc \in {"finally_exc", "raised"}]_vars

\* the agent raised, the final report was written, the exception went on
C6_Witness ==
    /\ pc = "raised"
    /\ finalize_calls = 1
    /\ report_file.state = "written"

(***************************************************************************)
(* Properties of the timers.                                               *)
(***************************************************************************)
InterventionChecked == lastAction = "check_user_intervention_timeout"

ApplicationChecked ==
    lastAction = "check_application_time_limit" /\ lastArgs.start_time_iso # Malformed

Armed == user_intervention_start # None

\* seconds since the timer was started
Elapsed == clock - user_intervention_start

\* seconds since the start time passed to check_application_time_limit
ApplicationElapsed == clock - lastArgs.start_time_iso

\* C7 as stated: a check of a running timer reports the timeout exactly when
\* the elapsed time is at least the limit (120 s, 300 s), and the remaining
\* seconds exactly when it is below the limit; on the limit it reports the
\* timeout.
C7_ExceededFromLimitOn ==
    /\ (InterventionChecked /\ Armed) =>
          /\ (result.extracted_content = "TIMEOUT_EXCEEDED") <=> (Elapsed >= InterventionLimit)
          /\ (result.extracted_content = "Timer active - seconds remaining") <=>
                (Elapsed < InterventionLimit)
    /\ ApplicationChecked =>
          /\ (result.extracted_content = "TIME_LIMIT_EXCEEDED") <=>
                (ApplicationElapsed >= ApplicationLimit)
          /\ (result.extracted_content = "Time remaining: seconds") <=>
                (ApplicationElapsed < ApplicationLimit)

\* C7 as amended: a check of a running timer reports the timeout exactly when
\* the elapsed time is greater than the limit, and otherwise the limit minus
\* the elapsed time as the remaining seconds; on the limit it reports 0
\* seconds remaining.
C7_ExceededPastLimitOnly ==
    /\ (InterventionChecked /\ Armed) =>
          /\ (result.extracted_content = "TIMEOUT_EXCEEDED") <=> (Elapsed > InterventionLimit)
          /\ (result.extracted_content = "Timer active - seconds remaining") <=>
                (Elapsed <= InterventionLimit)
          /\ (Elapsed <= InterventionLimit) => result.n = InterventionLimit - Elapsed
          /\ (Elapsed = InterventionLimit) => result.n = 0
    /\ ApplicationChecked =>
          /\ (result.extracted_content = "TIME_LIMIT_EXCEEDED") <=>
                (ApplicationElapsed > ApplicationLimit)
          /\ (result.extracted_content = "Time remaining: seconds") <=>
                (ApplicationElapsed <= ApplicationLimit)
          /\ (ApplicationElapsed <= ApplicationLimit) =>
                result.n = ApplicationLimit - ApplicationElapsed

\* the intervention timer has been checked exactly 120 seconds after its start
C7_Witness ==
    /\ InterventionChecked /\ Armed
    /\ Elapsed = InterventionLimit
    /\ result = ActionResult("Timer active - seconds remaining", 0)

\* the timer is running and past its limit
PastLimit == Armed /\ Elapsed > InterventionLimit

\* C8: a check never changes user_intervention_start, whether the timer is
\* not running, within its window or past the limit; and once a check has
\* reported the timeout, the timer stays past its limit, and every check
\* reports the timeout, until the timer is started again or reset.
C8_CheckIsPassive ==
    [][/\ (lastAction' = "check_user_intervention_timeout") =>
             user_intervention_start' = user_intervention_start
       /\ (InterventionChecked /\ result.extracted_content = "TIMEOUT_EXCEEDED") => PastLimit
       /\ (PastLimit /\ lastAction' \notin {"start_user_intervention_timer",
                                            "reset_user_intervention_timer"}) => PastLimit'
       /\ (PastLimit /\ lastAction' = "check_user_intervention_timeout") =>
             result'.extracted_content = "TIMEOUT_EXCEEDED"]_vars

\* the timeout is reported again 301 seconds after the start, where it was
\* already past the limit at 121 seconds
C8_Witness ==
    /\ InterventionChecked
    /\ result.extracted_content = "TIMEOUT_EXCEEDED"
    /\ user_intervention_start = 0 /\ prev_intervention_start = 0
    /\ clock = 301

\* C9: starting the timer is possible in every state of it and sets
\* user_intervention_start to the current instant over any earlier value, so
\* that a later check depends only on the time since this start; a check
\* right after the start reports the full 120 seconds remaining, also when
\* the timer was past its limit before.
C9_StartOverwrites ==
    [][/\ (pc = "running") => ENABLED start_user_intervention_timer
       /\ (lastAction' = "start_user_intervention_timer") =>
             (user_intervention_start' = clock /\ clock' = clock)
       /\ (lastAction = "start_user_intervention_timer"
             /\ lastAction' = "check_user_intervention_timeout") =>
             result' = ActionResult("Timer active - seconds remaining", InterventionLimit)
       /\ (Armed /\ lastAction' = "check_user_intervention_timeout") =>
             result' = (IF clock - user_intervention_start > InterventionLimit
                        THEN ActionResult("TIMEOUT_EXCEEDED", 0)
                        ELSE ActionResult("Timer active - seconds remaining",
                                          InterventionLimit - (clock - user_intervention_start)))]_vars

\* a timer past its limit has been started again
C9_Witness ==
    /\ lastAction = "start_user_intervention_timer"
    /\ prev_intervention_start # None
    /\ clock - prev_intervention_start > InterventionLimit
    /\ user_intervention_start = clock

\* C10: a reset leaves the timer not running whatever its state was, and a
\* check of a timer that is not running reports "No intervention timer
\* active", never the timeout, however much time has passed; the timer stays
\* not running until it is started.
C10_ResetDisarms ==
    [][/\ (lastAction' = "reset_user_intervention_timer") => user_intervention_start' = None
       /\ (~Armed /\ lastAction' # "start_user_intervention_timer") => ~Armed'
       /\ (~Armed /\ lastAction' = "check_user_intervention_timeout") =>
             result' = ActionResult("No intervention timer active", 0)]_vars

\* a timer past its limit has been reset
C10_Witness ==
    /\ lastAction = "reset_user_intervention_timer"
    /\ prev_intervention_start # None
    /\ clock - prev_intervention_start > InterventionLimit
    /\ user_intervention_start = None

\* C11 as stated: for the 5-minute check, 299 seconds after the start the
\* check reports 299 seconds remaining, and 301 seconds after the start it
\* reports TIME_LIMIT_EXCEEDED.
C11_Remaining299At299 ==
    /\ (ApplicationChecked /\ ApplicationElapsed = 299) =>
          result = ActionResult("Time remaining: seconds", 299)
    /\ (ApplicationChecked /\ ApplicationElapsed = 301) =>
          result = ActionResult("TIME_LIMIT_EXCEEDED", 0)

\* C11 as amended: 299 seconds after the start the check reports 1 second
\* remaining, and 301 seconds after the start it reports TIME_LIMIT_EXCEEDED.
C11_Remaining1At299 ==
    /\ (ApplicationChecked /\ ApplicationElapsed = 299) =>
          result = ActionResult("Time remaining: seconds", 1)
    /\ (ApplicationChecked /\ ApplicationElapsed = 301) =>
          result = ActionResult("TIME_LIMIT_EXCEEDED", 0)

\* the check has been called 299 seconds after the start time passed to it
C11_Witness ==
    /\ ApplicationChecked
    /\ ApplicationElapsed = 299
    /\ result.extracted_content = "Time remaining: seconds"

\* C12: a call of log_application_attempt with a status outside success,
\* failed and skipped is accepted, so it returns the confirmation and its
\* record is appended, but no counter reflects it: all five counters,
\* total_jobs_checked and easy_apply_found among them, are after the call
\* what they were before it.
C12_UnknownStatusNotCounted ==
    [][(/\ lastAction' = "log_application_attempt"
        /\ lastArgs'.status \notin StatusValues
        /\ json_file' = [exists |-> TRUE, content |-> JsonDump(session_data')]) =>
          /\ result' = ActionResult("Application logged", 0)
          /\ session_data'.applications =
                Append(session_data.applications, ApplicationStatus(lastArgs', clock))
          /\ session_data'.stats = session_data.stats]_vars

\* the nine fields of an application record
RecordFields ==
    {"job_title", "company", "job_url", "application_time", "status", "reason",
     "easy_apply", "form_fields_filled", "errors"}

\* C13: the list of application records in memory is append-only: across
\* every step, of whatever action, each record appended earlier stays at its
\* position with its nine fields unchanged; a call of
\* log_application_attempt appends exactly one record at the end, and no
\* other action, the final report included, changes the list.
C13_RecordsAppendOnly ==
    [][LET old == session_data.applications
           new == session_data'.applications
       IN  /\ Len(new) >= Len(old)
           /\ \A i \in 1..Len(old) : new[i] = old[i]
           /\ \A i \in 1..Len(new) : DOMAIN new[i] = RecordFields
           /\ (lastAction' \in {"log_application_attempt", "log_application_attempt_killed"}) =>
                 new = Append(old, ApplicationStatus(lastArgs', clock))
           /\ (lastAction' \notin {"log_application_attempt", "log_application_attempt_killed"}) =>
                 new = old]_vars

\* the final report has been written over a list of two different records,
\* the first of them logged before the clock moved
C13_Witness ==
    /\ lastAction = "_save_final_report"
    /\ report_file.state = "written"
    /\ Len(Applications) = 2
    /\ Applications[1].status = "success" /\ Applications[1].application_time = 0
    /\ Applications[2].status = "failed" /\ Applications[2].application_time = 121

StatsReturned == lastAction = "get_session_stats"

\* the step is a call of get_session_stats: under SpecSummary the clock may
\* move while lastAction stays, and a call does not move the clock
StatsCall == lastAction' = "get_session_stats" /\ clock' = clock

\* C14 as stated: get_session_stats is a pure read, leaving the session
\* data, the snapshot file and the timer as they are, and two calls with no
\* log_application_attempt between them return the same output,
\* session_duration included, whatever else happens between them.
C14_SameOutputTwice ==
    [][/\ StatsCall =>
             /\ session_data' = session_data
             /\ json_file' = json_file
             /\ user_intervention_start' = user_intervention_start
       /\ (StatsReturned /\ StatsCall) => result' = result]_vars

\* C14 as amended: get_session_stats is a pure read, leaving the session
\* data, the snapshot file, the final report and the timer as they are; its
\* statistics and its two rates depend on the counters alone, which only
\* log_application_attempt changes, so two calls with no
\* log_application_attempt between them return the same statistics,
\* success_rate and easy_apply_rate; session_duration is the whole seconds
\* since start_time at the call, so it is the same in the two calls only
\* when no second has passed between them and larger in the later call
\* otherwise.
C14_SameCountersTwice ==
    [][/\ StatsCall =>
             /\ session_data' = session_data
             /\ json_file' = json_file
             /\ report_file' = report_file
             /\ user_intervention_start' = user_intervention_start
             /\ pc' = pc
             /\ result'.error = ""
             /\ result'.summary.statistics = session_data.stats
             /\ result'.summary.session_duration = clock - session_data.start_time
             /\ result'.summary.success_rate =
                   Rate(session_data.stats.applications_submitted,
                        session_data.stats.total_jobs_checked)
             /\ result'.summary.easy_apply_rate =
                   Rate(session_data.stats.easy_apply_found,
                        session_data.stats.total_jobs_checked)
       /\ (lastAction' \notin {"log_application_attempt", "log_application_attempt_killed"}) =>
             session_data'.stats = session_data.stats
       /\ (StatsReturned /\ StatsCall) =>
             /\ result'.summary.statistics = result.summary.statistics
             /\ result'.summary.success_rate = result.summary.success_rate
             /\ result'.summary.easy_apply_rate = result.summary.easy_apply_rate
             /\ result'.summary.session_duration >= result.summary.session_duration
             /\ (result'.summary.session_duration = result.summary.session_duration) <=>
                   (clock = result.summary.session_duration + session_data.start_time)]_vars

\* a call 121 seconds into a session with one submitted application out of
\* two, neither of them on disk: the success rate is 50.0% and the duration
\* is 121
C14_Witness ==
    /\ StatsReturned
    /\ clock = 121
    /\ Stats.total_jobs_checked = 2 /\ Stats.applications_submitted = 1
    /\ result.summary.success_rate = 500
    /\ result.summary.session_duration = 121
    /\ ~json_file.exists

\* the snapshot on disk, when it is a whole document, shows the start time
\* and a first part of the list in memory, record by record
SnapshotIsPrefix ==
    LET parsed == JsonLoad(json_file.content)
        loaded == parsed.val
    IN  (json_file.exists /\ parsed.ok) =>
            /\ loaded.start_time = session_data.start_time
            /\ Len(loaded.applications) <= Len(Applications)
            /\ \A i \in 1..Len(loaded.applications) : loaded.applications[i] = Applications[i]

\* C15: a snapshot left behind by a failed write does not stay behind: the
\* next call of log_application_attempt whose write succeeds leaves a
\* snapshot with every record appended so far, those whose own write failed
\* included, and with the counters of the session in memory; and a snapshot
\* that a write completed always shows a first part of the list in memory.
C15_NextWriteCatchesUp ==
    /\ (LogReturned /\ result.error = "" /\ prev_snapshot_diverged) =>
          /\ SnapshotUpToDate(json_file, session_data)
          /\ JsonLoad(json_file.content).val.applications = Applications
          /\ JsonLoad(json_file.content).val.stats = Stats
    /\ SnapshotIsPrefix

\* the write of the second record has succeeded after the write of the first
\* had failed: both records are on disk
C15_Witness ==
    /\ LogReturned /\ result.error = ""
    /\ prev_snapshot_diverged
    /\ Len(Applications) = 2
    /\ Len(JsonLoad(json_file.content).val.applications) = 2

====
